---- MODULE Spec2Model ----
(***************************************************************************)
(* PN532 NFC reader: the poll loops (NFCReaderService.monitor_loop and     *)
(* NFCReaderHA.start_monitoring), event delivery, the bulk block reader    *)
(* and the response parsers of src/nfc_reader_ha_events.py and             *)
(* src/nfc_reader_service.py.                                              *)
(*                                                                         *)
(* Bytes are integers 0..255.  Python strings are sequences of one-        *)
(* character strings, so that len(), strip() and hex formatting are        *)
(* computed and not assumed.  Python's None is the value None below.       *)
(*                                                                         *)
(* Seven specifications share the variables:                               *)
(*   Spec        the service / monitor process (start, poll loop, signals) *)
(*   SpecRun     Spec with the process's own steps weakly fair             *)
(*   SpecBulk    one call of _read_tag_data_bulk, read by read             *)
(*   SpecCodec   the two response parsers applied to response buffers      *)
(*   SpecSession connect_serial and the command frames written             *)
(*   SpecNdef    _parse_ndef_record_1_validated on a tag memory image      *)
(*   SpecExtract _extract_tag_value on a record type and payload           *)
(* Each leaves the other specifications' variables at their idle values.   *)
(***************************************************************************)
EXTENDS Integers, Sequences, FiniteSets, TLC

VARIABLES
    \* ---- configuration (NFCReaderHA.__init__, config collaborator)
    loopKind,       \* "service": nfc_reader_service.py; "ha": nfc_reader_ha_events.main
    payload_type,   \* config 'nfc_reader.payload_type', lower-cased: "ndef" or "uuid"
    ha_token,       \* TRUE iff home_assistant.token is a usable token
    \* ---- process state
    pc,             \* position of the main thread of control
    running,        \* NFCReaderService.running
    reader,         \* NFCReaderService.reader: "none" or "obj"
    serial,         \* NFCReaderHA.serial: "none", "open" or "closed"
    last_uid,       \* monitor_loop's last_uid / NFCReaderHA.last_uid
    response,       \* scan_for_card's response buffer of the scan under way
    card,           \* what scan_for_card returned to the loop
    signals,        \* termination requests delivered so far
    \* ---- observers (history of the run, never read by the program)
    prevUid,        \* last_uid as it was when the latest poll was handled
    event,          \* presence event of the latest handled poll
    posted,         \* tag_id of the POST made while handling the latest poll
    extracted,      \* value _extract_tag_value gave in the latest scan (None: none)
    fires,          \* fire_tag_scanned_event calls in the current run of equal polls
    streakUid,      \* UID returned by the latest poll (None: no card, or none yet)
    exIdx,          \* how much of ExampleScans the polls have followed so far
    exEvents,       \* the events of the polls that followed ExampleScans
    ioFailed,       \* a transport write/read has raised in this session
    polledAfterFail,\* a transport command was issued after ioFailed
    scanRaised,     \* the latest scan_for_card call raised
    scanIoError,    \* the transport raised during the latest scan_for_card call
    \* ---- one _read_tag_data_bulk call
    bulk_pc, start_block, num_blocks, block_start, retry, block_data,
    all_data, bulk_result, reads, opens, chunkFailed,
    \* ---- the response parsers
    codec_pc, buf, cardResult, dxResult,
    framed,         \* the data wrapped into buf by DxFrame (NoBytes: buf is not such a frame)
    \* ---- connect_serial and the commands written to the transport
    sess_pc,        \* position inside connect_serial / after it
    written,        \* names of the commands written so far, in order
    lastFrame,      \* bytes of the latest command written
    responded,      \* for each handshake read so far: did it return any bytes
    connect_result, \* "True" / "False" as connect_serial returned, "pending" before
    \* ---- the NDEF parser and the value extractor
    nd_pc,          \* position inside _parse_ndef_record_1_validated and its callees
    nd_data,        \* the memory image (ndef_data) given to _parse_ndef_record_1_validated
    tlv,            \* msg_len and offset of the NDEF TLV found (NoTlv: none)
    ndef_message,   \* the message given to _parse_first_ndef_record (NoBytes: none)
    fields,         \* header fields _parse_first_ndef_record read (NoFields: header cut)
    record_type,    \* _extract_tag_value's record_type
    payload,        \* _extract_tag_value's payload
    branch,         \* the branch of _extract_tag_value that returned
    tag_value,      \* what _extract_tag_value returned
    nd_result       \* what _parse_ndef_record_1_validated returned

loopVars == <<loopKind, payload_type, ha_token, pc, running, reader, serial,
              last_uid, response, card, signals, prevUid, event, posted,
              extracted, fires, streakUid, exIdx, exEvents, ioFailed, polledAfterFail,
              scanRaised, scanIoError>>
bulkVars == <<bulk_pc, start_block, num_blocks, block_start, retry, block_data,
              all_data, bulk_result, reads, opens, chunkFailed>>
codecVars == <<codec_pc, buf, cardResult, dxResult, framed>>
sessVars == <<sess_pc, written, lastFrame, responded, connect_result>>
ndefVars == <<nd_pc, nd_data, tlv, ndef_message, fields, record_type, payload,
              branch, tag_value, nd_result>>
vars == <<loopVars, bulkVars, codecVars, sessVars, ndefVars>>

-----------------------------------------------------------------------------
(* Python values *)

\* Python's None; no text and no byte list equals it.
None == <<"None">>

\* Python's None where a list of bytes is expected; no list of bytes equals it.
NoBytes == <<-1>>

\* scan_for_card returning None.
NoCard == [kind |-> "none"]

\* No NDEF TLV found; no record header read.
NoTlv == [found |-> FALSE]
NoFields == [read |-> FALSE]

\* An exception propagating out of a call.
Raised == [kind |-> "raised"]

Min(S) == CHOOSE x \in S : \A y \in S : x <= y

\* sum(s), added up in runs of 16 elements and then run by run.
Sum(s) ==
    LET n == Len(s)
        runs == (n + 15) \div 16
        run[k \in 1 .. n] ==
            s[k] + (IF (k - 1) % 16 = 0 THEN 0 ELSE run[k - 1])
        upto[r \in 0 .. runs] ==
            IF r = 0 THEN 0
            ELSE upto[r - 1] + run[IF 16 * r < n THEN 16 * r ELSE n]
    IN  upto[runs]

\* s[a:b] for 0 <= a, with Python's clipping at the end of s.
Slice(s, a, b) ==
    LET hi == IF b < Len(s) THEN b ELSE Len(s)
    IN  IF a >= hi THEN <<>> ELSE SubSeq(s, a + 1, hi)

\* s[i] for an index inside s (0-based).
At(s, i) == s[i + 1]

HexDigits == <<"0", "1", "2", "3", "4", "5", "6", "7",
               "8", "9", "A", "B", "C", "D", "E", "F">>

\* f'{b:02X}'
Hex2(b) == <<HexDigits[(b \div 16) + 1], HexDigits[(b % 16) + 1]>>

\* ''.join(f'{b:02X}' for b in bytes)
RECURSIVE HexStr(_)
HexStr(bs) == IF bs = <<>> THEN <<>> ELSE Hex2(Head(bs)) \o HexStr(Tail(bs))

-----------------------------------------------------------------------------
(* Frames *)

\* A frame builder whose DCS is the one's complement of the payload sum.
BuildFrame_OnesComplementDcs(data_payload) ==
    LET data_len == Len(data_payload)
        lcs == (256 - data_len) % 256
        dcs == (255 - Sum(data_payload)) % 256
    IN  <<0, 0, 255, data_len, lcs>> \o data_payload \o <<dcs, 0>>

\* 00 00 FF LEN LCS [data] DCS 00, as _read_tag_data builds it.
BuildFrame(data_payload) ==
    LET data_len == Len(data_payload)
        lcs == (256 - data_len) % 256
        dcs == (256 - Sum(data_payload)) % 256
    IN  <<0, 0, 255, data_len, lcs>> \o data_payload \o <<dcs, 0>>

\* The card-type table of _parse_card_data; a label is a list of text pieces.
CardType(sel_res) ==
    CASE sel_res = 0  -> <<"MIFARE Ultralight">>
      [] sel_res = 8  -> <<"MIFARE Classic 1K">>
      [] sel_res = 24 -> <<"MIFARE Classic 4K">>
      [] sel_res = 32 -> <<"MIFARE DESFire">>
      [] sel_res = 68 -> <<"MIFARE Plus">>
      [] OTHER        -> <<"Unknown (SAK: 0x">> \o Hex2(sel_res) \o <<")">>

\* A loop that takes a response with no target for a card.
CardHits_NoTargetCount(data) ==
    LET n == Len(data)
    IN  { i \in 0 .. (n - 11) :
            /\ Slice(data, i, i + 3) = <<0, 0, 255>>
            /\ i + 6 < n
            /\ At(data, i + 5) = 213
            /\ At(data, i + 6) = 75
            /\ i + 12 < n
            /\ i + 13 + At(data, i + 12) <= n }

\* The positions at which _parse_card_data's loop returns a card.
CardHits(data) ==
    LET n == Len(data)
    IN  { i \in 0 .. (n - 11) :
            /\ Slice(data, i, i + 3) = <<0, 0, 255>>
            /\ i + 6 < n
            /\ At(data, i + 5) = 213
            /\ At(data, i + 6) = 75
            /\ i + 12 < n
            /\ At(data, i + 7) > 0
            /\ i + 13 + At(data, i + 12) <= n }

\* The dict _parse_card_data returns at position i; tag_value is the key
\* scan_for_card adds later (None: the key is absent).
CardAt(data, i) ==
    LET uid_len == At(data, i + 12)
    IN  [kind      |-> "card",
         uid       |-> HexStr(Slice(data, i + 13, i + 13 + uid_len)),
         type      |-> CardType(At(data, i + 11)),
         protocol  |-> "ISO14443A",
         sens_res  |-> Slice(data, i + 9, i + 11),
         sel_res   |-> At(data, i + 11),
         target_id |-> 1,
         tag_value |-> None]

\* A variant that reads the target header without the "i + 12 < len" guard:
\* on a frame cut short it indexes past the buffer and raises IndexError.
ParseCardData_NoLengthGuard(data) ==
    LET n == Len(data)
        heads == { i \in 0 .. (n - 11) :
                     /\ Slice(data, i, i + 3) = <<0, 0, 255>>
                     /\ i + 6 < n
                     /\ At(data, i + 5) = 213
                     /\ At(data, i + 6) = 75 }
        bad == { i \in heads : i + 12 >= n }
    IN  IF bad # {} /\ (CardHits(data) = {} \/ Min(bad) < Min(CardHits(data)))
        THEN Raised
        ELSE IF CardHits(data) = {} THEN NoCard
        ELSE CardAt(data, Min(CardHits(data)))

\* _parse_card_data
ParseCardData(data) ==
    IF CardHits(data) = {} THEN NoCard ELSE CardAt(data, Min(CardHits(data)))

\* The positions at which _parse_data_exchange_response's loop returns.
DxHits(data) ==
    LET n == Len(data)
    IN  { i \in 0 .. (n - 9) :
            /\ Slice(data, i, i + 3) = <<0, 0, 255>>
            /\ i + 7 < n
            /\ At(data, i + 5) = 213
            /\ At(data, i + 6) = 65
            /\ At(data, i + 7) = 0
            /\ i + 8 + (At(data, i + 3) - 3) <= n }

\* A parser that takes LEN to count the two response-type bytes only.
ParseDataExchangeResponse_LenLessTwo(data) ==
    IF DxHits(data) = {} THEN NoBytes
    ELSE LET i == Min(DxHits(data))
             data_len == At(data, i + 3) - 2
         IN  Slice(data, i + 8, i + 8 + data_len)

\* _parse_data_exchange_response: the payload list, or None.
ParseDataExchangeResponse(data) ==
    IF DxHits(data) = {} THEN NoBytes
    ELSE LET i == Min(DxHits(data))
             data_len == At(data, i + 3) - 3
         IN  Slice(data, i + 8, i + 8 + data_len)

-----------------------------------------------------------------------------
(* Texts and the inputs of the poll loop *)

\* A Python str literal as the list of its characters.
Chars(str) == [k \in 1 .. Len(str) |-> SubSeq(str, k, k)]

\* The characters U+0020 .. U+005F and U+0061 .. U+007E, in order.
AsciiLow == Chars(" !\"#$%&'()*+,-./0123456789:;<=>?@ABCDEFGHIJKLMNOPQRSTUVWXYZ[\\]^_")
AsciiHigh == Chars("abcdefghijklmnopqrstuvwxyz{|}~")

\* chr(cp): the character itself for those, for tab, newline and carriage
\* return; any other code point is named U+hhhhhh.
Chr(cp) ==
    IF cp >= 32 /\ cp <= 95 THEN AsciiLow[cp - 31]
    ELSE IF cp >= 97 /\ cp <= 126 THEN AsciiHigh[cp - 96]
    ELSE IF cp = 9 THEN "\t"
    ELSE IF cp = 10 THEN "\n"
    ELSE IF cp = 13 THEN "\r"
    ELSE "U+" \o HexDigits[((cp \div 1048576) % 16) + 1]
              \o HexDigits[((cp \div 65536) % 16) + 1]
              \o HexDigits[((cp \div 4096) % 16) + 1]
              \o HexDigits[((cp \div 256) % 16) + 1]
              \o HexDigits[((cp \div 16) % 16) + 1]
              \o HexDigits[(cp % 16) + 1]

\* The ASCII bytes of a str literal: str.encode().
Bytes(str) ==
    [k \in 1 .. Len(str) |->
        CHOOSE b \in 32 .. 126 : Chr(b) = SubSeq(str, k, k)]

\* The code points str.isspace() holds for: what str.strip() removes.
WhitespaceCodes ==
    {9, 10, 11, 12, 13, 28, 29, 30, 31, 32, 133, 160, 5760, 8232, 8233, 8239,
     8287, 12288} \cup (8192 .. 8202)

Whitespace == { Chr(cp) : cp \in WhitespaceCodes }

\* A UTF-8 continuation byte.
Cont(b) == b >= 128 /\ b <= 191

\* One step of bytes.decode('utf-8', errors='ignore') at position k (1-based):
\* the bytes it passes over and the code point they give (-1: they are
\* dropped as an invalid or cut-off sequence).
Utf8Step(bs, k) ==
    LET n  == Len(bs) - k + 1
        b0 == bs[k]
        lo == IF b0 = 224 THEN 160 ELSE IF b0 = 240 THEN 144 ELSE 128
        hi == IF b0 = 237 THEN 159 ELSE IF b0 = 244 THEN 143 ELSE 191
    IN  IF b0 < 128 THEN [n |-> 1, cp |-> b0]
        ELSE IF b0 >= 194 /\ b0 <= 223
        THEN IF n >= 2 /\ Cont(bs[k + 1])
             THEN [n |-> 2, cp |-> (b0 - 192) * 64 + (bs[k + 1] - 128)]
             ELSE [n |-> 1, cp |-> -1]
        ELSE IF b0 >= 224 /\ b0 <= 239
        THEN IF n < 2 \/ bs[k + 1] < lo \/ bs[k + 1] > hi
             THEN [n |-> 1, cp |-> -1]
             ELSE IF n < 3 \/ ~Cont(bs[k + 2])
             THEN [n |-> 2, cp |-> -1]
             ELSE [n |-> 3, cp |-> (b0 - 224) * 4096 + (bs[k + 1] - 128) * 64
                                      + (bs[k + 2] - 128)]
        ELSE IF b0 >= 240 /\ b0 <= 244
        THEN IF n < 2 \/ bs[k + 1] < lo \/ bs[k + 1] > hi
             THEN [n |-> 1, cp |-> -1]
             ELSE IF n < 3 \/ ~Cont(bs[k + 2])
             THEN [n |-> 2, cp |-> -1]
             ELSE IF n < 4 \/ ~Cont(bs[k + 3])
             THEN [n |-> 3, cp |-> -1]
             ELSE [n |-> 4, cp |-> (b0 - 240) * 262144 + (bs[k + 1] - 128) * 4096
                                      + (bs[k + 2] - 128) * 64 + (bs[k + 3] - 128)]
        ELSE [n |-> 1, cp |-> -1]

RECURSIVE Utf8From(_, _)
Utf8From(bs, k) ==
    IF k > Len(bs) THEN <<>>
    ELSE LET st == Utf8Step(bs, k)
         IN  (IF st.cp < 0 THEN <<>> ELSE <<Chr(st.cp)>>) \o Utf8From(bs, k + st.n)

\* bytes(bs).decode('utf-8', errors='ignore')
Utf8Decode(bs) == Utf8From(bs, 1)

\* s.find(sep), 1-based; 0 when sep does not occur in s.
Find(s, sep) ==
    LET at == { k \in 1 .. (Len(s) - Len(sep) + 1) :
                  SubSeq(s, k, k + Len(sep) - 1) = sep }
    IN  IF at = {} THEN 0 ELSE Min(at)

\* sep in s
Contains(s, sep) == Find(s, sep) > 0

\* s.split(sep)[-1]: split cuts at the occurrences of sep met from the left,
\* each search resuming after the previous occurrence.
RECURSIVE SplitLast(_, _)
SplitLast(s, sep) ==
    IF Find(s, sep) = 0 THEN s
    ELSE SplitLast(SubSeq(s, Find(s, sep) + Len(sep), Len(s)), sep)


RECURSIVE LStrip(_)
LStrip(s) == IF s # <<>> /\ Head(s) \in Whitespace THEN LStrip(Tail(s)) ELSE s

RECURSIVE RStrip(_)
RStrip(s) ==
    IF s # <<>> /\ s[Len(s)] \in Whitespace
    THEN RStrip(SubSeq(s, 1, Len(s) - 1)) ELSE s

\* str.strip()
Strip(s) == RStrip(LStrip(s))

\* Truthiness of a value that is None or a str.
Truthy(v) == v # None /\ v # <<>>

\* Truthiness of a value that is None or a list of bytes.
TruthyBytes(v) == v # NoBytes /\ v # <<>>

\* Minimum trimmed length of a usable tag id (_parse_first_ndef_record).
MinTagLen == 8

\* Saturation of the observer "fires" (it only has to tell 1 from more).
MaxFires == 2

\* Termination requests the environment may send.
MaxSignals == 2

\* The ACK frame the PN532 sends before a response.
Ack == <<0, 0, 255, 0, 255, 0>>

UidA == <<4, 161, 178, 195>>
UidB == <<222, 173, 190, 239>>
Uid7 == <<4, 11, 22, 33, 44, 55, 128>>

\* An InListPassiveTarget response frame: D5 4B NbTg Tg SENS_RES SEL_RES len UID.
DetectFrame(nbTg, sel_res, uid) ==
    BuildFrame(<<213, 75, nbTg, 1, 0, 68, sel_res, Len(uid)>> \o uid)

\* A response frame whose declared UID length runs past the buffer.
OverlongUidFrame ==
    BuildFrame(<<213, 75, 1, 1, 0, 68, 0, 10>> \o UidA)

\* A response frame whose data checksum is wrong.
BadDcsFrame ==
    LET f == DetectFrame(1, 0, UidA)
    IN  [f EXCEPT ![Len(f) - 1] = (f[Len(f) - 1] + 1) % 256]

Prefixes(s) == { SubSeq(s, 1, n) : n \in 0 .. Len(s) }

\* What serial.read_all() may return in scan_for_card.
ScanResponses ==
    Prefixes(Ack \o DetectFrame(1, 0, UidA))
       \cup { DetectFrame(1, 8, UidB),
              Ack \o DetectFrame(1, 0, <<>>),
              Ack \o BuildFrame(<<213, 75, 0>>) \o <<0, 0, 0, 0, 0, 0>>,
              Ack \o OverlongUidFrame,
              Ack \o BadDcsFrame,
              [i \in 1 .. 16 |-> 255] }

TextAb == <<"a", "b">>
TextTag == <<"t", "a", "g", "-", "0", "0", "4", "2">>
TextPadded == <<" ", " ", "a", "b", "c", "d", "e", "f", "\n">>

\* What reading the tag's NDEF area may come to: the transport raising inside a
\* block read, no readable NDEF record, or the value _extract_tag_value gives.
NdefOutcomes ==
    { [io |-> "error", value |-> None], [io |-> "ok", value |-> None] }
       \cup { [io |-> "ok", value |-> v] : v \in {<<>>, TextAb, TextTag, TextPadded} }

\* Outcome of requests.post: status 200, another status, or an exception.
HttpOutcomes == {"200", "error", "exception"}

UidHexA == HexStr(UidA)
UidHexB == HexStr(UidB)

\* No poll has been handled since the loop body was last entered.
NotHandled == [type |-> "unhandled", uid |-> None]
\* A handled poll that gave no presence event.
NoEvent == [type |-> "none", uid |-> None]
Entered(u) == [type |-> "entered", uid |-> u]
Left == [type |-> "left", uid |-> None]

\* The scans of the presence example and the events they are to give.
ExampleScans == <<None, UidHexA, UidHexA, None, UidHexB>>
ExampleEvents == <<Entered(UidHexA), Left, Entered(UidHexB)>>

-----------------------------------------------------------------------------
(* scan_for_card, fire_tag_scanned_event and the presence rule *)

\* Lines 364-368 of _parse_first_ndef_record: the extracted value is returned
\* only if it is non-empty and at least MinTagLen characters once trimmed.
TagValueGate_NoMinimum(value) ==
    IF Truthy(value) THEN value ELSE None

TagValueGate(value) ==
    IF Truthy(value) /\ Len(Strip(value)) >= MinTagLen THEN value ELSE None

\* _read_ndef_record_1: _read_tag_data swallows a transport exception and
\* returns None, and so does the outer try/except.
ReadNdefRecord1(nd) ==
    IF nd.io = "error" THEN None ELSE TagValueGate(nd.value)

\* scan_for_card after a read_all() that returned resp.
ScanResult(resp, nd) ==
    IF resp = <<>> \/ Len(resp) < 15 THEN NoCard
    ELSE LET card_data == ParseCardData(resp)
         IN  IF card_data = Raised THEN Raised
             ELSE IF card_data = NoCard THEN NoCard
             ELSE LET ndef_data == ReadNdefRecord1(nd)
                  IN  IF Truthy(ndef_data)
                      THEN [card_data EXCEPT !.tag_value = ndef_data]
                      ELSE card_data

\* The UID a poll returned (None: no card).
PollUid(c) == IF c = NoCard THEN None ELSE c.uid

\* fire_tag_scanned_event's tag_id in 'uuid' mode, were it to take the NDEF value.
FireTagId_UuidUsesNdef(c) ==
    IF ~ha_token THEN None
    ELSE IF ~Truthy(c.tag_value) THEN None ELSE c.tag_value

\* fire_tag_scanned_event: the tag_id it POSTs, None when it returns before
\* making a request.
FireTagId(c) ==
    IF ~ha_token THEN None
    ELSE IF payload_type = "uuid" THEN c.uid
    ELSE IF ~Truthy(c.tag_value) THEN None
    ELSE c.tag_value

\* fire_tag_scanned_event's return value.
FireReturns(c, http) == FireTagId(c) # None /\ http = "200"

\* The presence rule both loops apply to (last_uid, scan result).
PresenceEvent(prev, c) ==
    IF c # NoCard
    THEN IF c.uid # prev THEN Entered(c.uid) ELSE NoEvent
    ELSE IF Truthy(prev) THEN Left ELSE NoEvent

\* Observer: the example of the presence tracker, followed poll by poll.
ExStep(uid, ev) ==
    IF exIdx >= 0 /\ exIdx < Len(ExampleScans) /\ ExampleScans[exIdx + 1] = uid
    THEN /\ exIdx' = exIdx + 1
         /\ exEvents' = IF ev = NoEvent THEN exEvents ELSE Append(exEvents, ev)
    ELSE /\ exIdx' = -1
         /\ exEvents' = <<>>

ExOff == exIdx' = -1 /\ exEvents' = <<>>

Bump(n) == IF n < MaxFires THEN n + 1 ELSE n

-----------------------------------------------------------------------------
(* The service / monitor process *)

IdleBulk ==
    /\ bulk_pc = "idle" /\ start_block = 0 /\ num_blocks = 0 /\ block_start = 0
    /\ retry = 0 /\ block_data = NoBytes /\ all_data = <<>> /\ bulk_result = NoBytes
    /\ reads = 0 /\ opens = 0 /\ chunkFailed = -1

IdleCodec ==
    /\ codec_pc = "idle" /\ buf = <<>> /\ cardResult = NoCard /\ dxResult = NoBytes
    /\ framed = NoBytes

IdleSession ==
    /\ sess_pc = "idle" /\ written = <<>> /\ lastFrame = <<>> /\ responded = <<>>
    /\ connect_result = "pending"

IdleNdef ==
    /\ nd_pc = "idle" /\ nd_data = <<>> /\ tlv = NoTlv /\ ndef_message = NoBytes
    /\ fields = NoFields /\ record_type = <<>> /\ payload = <<>> /\ branch = "none"
    /\ tag_value = None /\ nd_result = None

IdleLoop ==
    /\ loopKind = "service" /\ payload_type = "ndef" /\ ha_token = FALSE
    /\ pc = "idle" /\ running = FALSE /\ reader = "none" /\ serial = "none"
    /\ last_uid = None /\ response = <<>> /\ card = NoCard /\ signals = 0
    /\ prevUid = None /\ event = NotHandled /\ posted = None /\ extracted = None
    /\ fires = 0
    /\ streakUid = None /\ exIdx = 0 /\ exEvents = <<>> /\ ioFailed = FALSE
    /\ polledAfterFail = FALSE /\ scanRaised = FALSE /\ scanIoError = FALSE

\* NFCReaderService.__init__ / the top of nfc_reader_ha_events.main.
Init ==
    /\ loopKind \in {"service", "ha"}
    /\ payload_type \in {"ndef", "uuid"}
    /\ ha_token \in BOOLEAN
    /\ pc = "start" /\ running = FALSE /\ reader = "none" /\ serial = "none"
    /\ last_uid = None /\ response = <<>> /\ card = NoCard /\ signals = 0
    /\ prevUid = None /\ event = NotHandled /\ posted = None /\ extracted = None
    /\ fires = 0
    /\ streakUid = None /\ exIdx = 0 /\ exEvents = <<>> /\ ioFailed = FALSE
    /\ polledAfterFail = FALSE /\ scanRaised = FALSE /\ scanIoError = FALSE
    /\ IdleBulk /\ IdleCodec /\ IdleSession /\ IdleNdef

config == <<loopKind, payload_type, ha_token>>
pollObs == <<prevUid, event, posted, extracted, fires, streakUid, exIdx, exEvents>>
Halted == {"start_failed", "stopped", "interrupted", "crashed"}
ioObs == <<ioFailed, polledAfterFail, scanRaised, scanIoError>>

\* NFCReaderService.start up to the call of monitor_loop, and main() of
\* nfc_reader_ha_events up to start_monitoring: build the reader, test the HA
\* API, connect_serial.
Start ==
    /\ pc = "start"
    /\ \E haOk \in BOOLEAN, conn \in {"ok", "open_failed", "handshake_raised"} :
         /\ reader' = "obj"
         /\ IF ~(ha_token /\ haOk)
            THEN pc' = "start_failed" /\ serial' = serial /\ running' = running
            ELSE /\ serial' = IF conn = "open_failed" THEN "none" ELSE "open"
                 /\ IF conn = "ok"
                    THEN /\ pc' = "loop"
                         /\ running' = (loopKind = "service")
                    ELSE /\ pc' = "start_failed"
                         /\ running' = running
    /\ UNCHANGED <<config, last_uid, response, card, signals, pollObs, ioObs>>
    /\ UNCHANGED <<bulkVars, codecVars, sessVars, ndefVars>>

\* The loop test of the service, were it "while True:".
LoopCheck_WhileTrue ==
    /\ pc = "loop"
    /\ pc' = "scan_write"
    /\ scanRaised' = FALSE /\ scanIoError' = FALSE
    /\ UNCHANGED <<config, running, reader, serial, last_uid, response, card,
                   signals, pollObs, ioFailed, polledAfterFail>>
    /\ UNCHANGED <<bulkVars, codecVars, sessVars, ndefVars>>

\* "while self.running:" of monitor_loop; "while True:" of start_monitoring.
LoopCheck ==
    /\ pc = "loop"
    /\ pc' = IF loopKind = "service" /\ ~running THEN "stopped" ELSE "scan_write"
    /\ scanRaised' = FALSE /\ scanIoError' = FALSE
    /\ UNCHANGED <<config, running, reader, serial, last_uid, response, card,
                   signals, pollObs, ioFailed, polledAfterFail>>
    /\ UNCHANGED <<bulkVars, codecVars, sessVars, ndefVars>>

\* An exception leaving scan_for_card: monitor_loop's inner handler catches it;
\* start_monitoring does not, and main()'s finally disconnects.
ScanRaises(io) ==
    /\ scanRaised' = TRUE
    /\ scanIoError' = io
    /\ ioFailed' = (ioFailed \/ io)
    /\ streakUid' = None /\ fires' = 0 /\ ExOff
    /\ IF loopKind = "service"
       THEN pc' = "except" /\ serial' = serial
       ELSE pc' = "crashed" /\ serial' = "closed"

\* self.reader.scan_for_card() up to self.serial.write(scan_cmd).
ScanWrite ==
    /\ pc = "scan_write"
    /\ IF reader = "none"
       THEN \* AttributeError on self.reader, before scan_for_card is entered
            /\ pc' = "except"
            /\ UNCHANGED <<serial, ioObs, streakUid, fires, exIdx, exEvents>>
       ELSE /\ polledAfterFail' = (polledAfterFail \/ ioFailed)
            /\ \E ok \in BOOLEAN :
                 IF serial = "open" /\ ok
                 THEN /\ pc' = "scan_read"
                      /\ UNCHANGED <<serial, ioFailed, scanRaised, scanIoError,
                                     streakUid, fires, exIdx, exEvents>>
                 ELSE ScanRaises(TRUE)
    /\ UNCHANGED <<config, running, reader, last_uid, response, card, signals,
                   prevUid, event, posted, extracted>>
    /\ UNCHANGED <<bulkVars, codecVars, sessVars, ndefVars>>

\* The rest of scan_for_card: read_all, _parse_card_data, _read_ndef_record_1.
ScanRead ==
    /\ pc = "scan_read"
    /\ \E ok \in BOOLEAN, resp \in ScanResponses, nd \in NdefOutcomes :
         IF serial # "open" \/ ~ok
         THEN /\ ScanRaises(TRUE)
              /\ UNCHANGED <<response, card, extracted, polledAfterFail>>
         ELSE LET res == ScanResult(resp, nd)
                  blockIo == res # NoCard /\ res # Raised /\ nd.io = "error"
              IN  IF res = Raised
                  THEN /\ ScanRaises(FALSE)
                       /\ UNCHANGED <<response, card, extracted, polledAfterFail>>
                  ELSE /\ response' = resp
                       /\ card' = res
                       /\ extracted' = IF res # NoCard /\ nd.io = "ok"
                                       THEN nd.value ELSE None
                       /\ pc' = "handle"
                       /\ fires' = IF PollUid(res) = streakUid /\ res # NoCard
                                   THEN fires ELSE 0
                       /\ streakUid' = PollUid(res)
                       /\ scanRaised' = FALSE
                       /\ scanIoError' = blockIo
                       /\ ioFailed' = (ioFailed \/ blockIo)
                       /\ polledAfterFail' = (polledAfterFail \/ (ioFailed /\ res # NoCard))
                       /\ UNCHANGED <<serial, exIdx, exEvents>>
    /\ UNCHANGED <<config, running, reader, last_uid, signals, prevUid, event, posted>>
    /\ UNCHANGED <<bulkVars, codecVars, sessVars, ndefVars>>

\* One pass through the body of monitor_loop after scan_for_card returned
\* (lines 117-139), fire_tag_scanned_event and its HTTP request included.
HandleService ==
    /\ pc = "handle" /\ loopKind = "service"
    /\ \E http \in HttpOutcomes :
         LET ev == PresenceEvent(last_uid, card)
             entered == ev.type = "entered"
             invoked == entered /\ reader = "obj"
             tag == IF invoked THEN FireTagId(card) ELSE None
             fired_ok == invoked /\ FireReturns(card, http)
             \* line 127 formats card['tag_value'], a key the card may not have
             keyError == fired_ok /\ card.tag_value = None
             \* line 126 dereferences self.reader, which stop() sets to None
             raises == (entered /\ reader = "none") \/ keyError
         IN  /\ last_uid' = IF raises THEN last_uid
                            ELSE IF entered THEN card.uid
                            ELSE IF ev = Left THEN None
                            ELSE last_uid
             /\ pc' = IF raises THEN "except" ELSE "sleep"
             /\ prevUid' = last_uid
             /\ event' = ev
             /\ posted' = tag
             /\ fires' = IF invoked THEN Bump(fires) ELSE fires
             /\ ExStep(PollUid(card), ev)
    /\ response' = <<>>
    /\ UNCHANGED <<config, running, reader, serial, card, signals, extracted,
                   streakUid, ioObs>>
    /\ UNCHANGED <<bulkVars, codecVars, sessVars, ndefVars>>

\* One pass through the body of start_monitoring after scan_for_card returned
\* (lines 710-733); the result of fire_tag_scanned_event is not used.
HandleHA ==
    /\ pc = "handle" /\ loopKind = "ha"
    /\ \E http \in HttpOutcomes :
         LET ev == PresenceEvent(last_uid, card)
             entered == ev.type = "entered"
             tag == IF entered THEN FireTagId(card) ELSE None
         IN  /\ last_uid' = IF entered THEN card.uid
                            ELSE IF ev = Left THEN None
                            ELSE last_uid
             /\ pc' = "sleep"
             /\ prevUid' = last_uid
             /\ event' = ev
             /\ posted' = tag
             /\ fires' = IF entered THEN Bump(fires) ELSE fires
             /\ ExStep(PollUid(card), ev)
    /\ response' = <<>>
    /\ UNCHANGED <<config, running, reader, serial, card, signals, extracted,
                   streakUid, ioObs>>
    /\ UNCHANGED <<bulkVars, codecVars, sessVars, ndefVars>>

\* time.sleep at the end of the loop body.
Sleep ==
    /\ pc = "sleep"
    /\ pc' = "loop"
    /\ card' = NoCard /\ prevUid' = None /\ event' = NotHandled /\ posted' = None
    /\ extracted' = None
    /\ UNCHANGED <<config, running, reader, serial, last_uid, response, signals,
                   fires, streakUid, exIdx, exEvents, ioObs>>
    /\ UNCHANGED <<bulkVars, codecVars, sessVars, ndefVars>>

\* monitor_loop's inner "except Exception": log, time.sleep(5), next iteration.
ExceptPause ==
    /\ pc = "except"
    /\ pc' = "loop"
    /\ card' = NoCard /\ prevUid' = None /\ event' = NotHandled /\ posted' = None
    /\ extracted' = None
    /\ UNCHANGED <<config, running, reader, serial, last_uid, response, signals,
                   fires, streakUid, exIdx, exEvents, ioObs>>
    /\ UNCHANGED <<bulkVars, codecVars, sessVars, ndefVars>>

\* SIGTERM/SIGINT.  In the service, signal_handler runs stop() at whatever
\* point the main thread has reached.  In the monitor, SIGINT raises
\* KeyboardInterrupt there: start_monitoring returns and main() disconnects.
Signal ==
    /\ pc \notin Halted
    /\ signals < MaxSignals
    /\ signals' = signals + 1
    /\ IF loopKind = "service"
       THEN /\ running' = FALSE
            /\ reader' = "none"
            /\ serial' = IF reader = "obj" /\ serial = "open" THEN "closed" ELSE serial
            /\ pc' = pc
       ELSE /\ pc' = "interrupted"
            /\ serial' = IF pc = "start" THEN serial ELSE "closed"
            /\ UNCHANGED <<running, reader>>
    /\ UNCHANGED <<config, last_uid, response, card, pollObs, ioObs>>
    /\ UNCHANGED <<bulkVars, codecVars, sessVars, ndefVars>>

Next ==
    \/ Start
    \/ LoopCheck
    \/ ScanWrite
    \/ ScanRead
    \/ HandleService
    \/ HandleHA
    \/ Sleep
    \/ ExceptPause
    \/ Signal

Spec == Init /\ [][Next]_vars

-----------------------------------------------------------------------------
(* Properties of the poll loops (checked under Spec) *)

\* A termination request has been delivered.
StopRequested == signals > 0

\* What a handled poll is to leave in last_uid.
StoredAfter(prev, ev) ==
    IF ev.type = "entered" THEN ev.uid
    ELSE IF ev.type = "left" THEN None
    ELSE prev

\* C1: while consecutive polls return the same UID, fire_tag_scanned_event is
\* invoked at most once for it, in either payload mode, with or without a
\* tag_value, whether the delivery succeeded or failed.
C1_AtMostOneFirePerPresence == fires <= 1

\* C2: every handled poll gives exactly the event the presence rule names for
\* (stored last_uid, poll) and leaves last_uid as the rule says (the new UID
\* after "entered", none after "left", unchanged otherwise); and the scans
\* [none, A, A, none, B] give exactly [entered(A), left, entered(B)].
C2_PresenceTracking ==
    /\ (event # NotHandled /\ ~StopRequested) =>
          /\ event = PresenceEvent(prevUid, card)
          /\ last_uid = StoredAfter(prevUid, event)
    /\ exIdx = Len(ExampleScans) => exEvents = ExampleEvents

\* C3: in 'ndef' mode a POST is made only with an extracted value of trimmed
\* length >= 8 as its tag_id: a new card with no NDEF value, or with a shorter
\* one, gives no POST, and the UID is never sent in its place.
C3_NdefDeliveryNeedsUsableValue ==
    (payload_type = "ndef" /\ event # NotHandled) =>
        /\ (~Truthy(extracted) \/ Len(Strip(extracted)) < MinTagLen) => posted = None
        /\ posted # None => posted = extracted

\* C3 witness: a new card whose extracted value is "ab" was handled in 'ndef'
\* mode and nothing was posted.
C3_Witness ==
    /\ payload_type = "ndef" /\ pc = "sleep"
    /\ event.type = "entered" /\ extracted = TextAb /\ posted = None

C6_IoFailureIsFatal == ~polledAfterFail

\* C7: the transport is not closed and the reader is not discarded while a
\* scan_for_card call of the poll loop is between its write and its read.
C7_NoStopMidScan ==
    pc = "scan_read" => (serial = "open" /\ reader = "obj")

\* C8: scan_for_card raises only when the transport raised; whatever bytes it
\* read, it hands the loop a card record or None, and the loop goes on: the
\* service loop ends only on a termination request, the monitor loop only on an
\* interrupt or a transport error.
C8_ScanTotalOnBytes ==
    /\ scanRaised => scanIoError
    /\ pc = "handle" => (card = NoCard \/ card.kind = "card")
    /\ pc = "stopped" => StopRequested
    /\ pc = "crashed" => scanIoError

\* C8 witness: a response of 15 bytes or more that holds no complete detection
\* frame was read, and the loop is handling "no card".
C8_Witness ==
    /\ pc = "handle" /\ Len(response) >= 15 /\ card = NoCard /\ ~scanRaised

\* The steps of the process itself, signals apart.
Run ==
    \/ Start
    \/ LoopCheck
    \/ ScanWrite
    \/ ScanRead
    \/ HandleService
    \/ HandleHA
    \/ Sleep
    \/ ExceptPause

\* The process keeps running: every call in the loop body returns or raises
\* within a timeout (serial timeout=0.5, requests timeout=5, time.sleep), and
\* a signal handler returns to the interrupted point.
SpecRun == Init /\ [][Next]_vars /\ WF_vars(Run)

\* The places of a poll iteration of monitor_loop.
PollPlaces == {"loop", "scan_write", "scan_read", "handle", "sleep", "except"}

\* stop() has run during a poll iteration of the service.
Stopping == loopKind = "service" /\ pc \in PollPlaces /\ ~running

\* C23: once stop() has run during a poll iteration of monitor_loop, running
\* stays false, the next loop test leaves the loop (no further pass begins,
\* no scan is sent and no poll is handled that was not already under way),
\* and monitor_loop ends and start() returns.
C23_StopEndsLoop ==
    /\ [][Stopping =>
             /\ ~running'
             /\ pc = "loop" => pc' \in {"loop", "stopped"}
             /\ pc' = "scan_write" => pc = "scan_write"
             /\ pc' = "scan_read" => pc = "scan_read"
             /\ pc' = "handle" => pc = "handle"]_vars
    /\ Stopping ~> (pc = "stopped")

\* C23 witness: stop() ran once, during a poll iteration (it closed the open
\* port and dropped the reader), and monitor_loop has ended.
C23_Witness ==
    /\ loopKind = "service" /\ pc = "stopped" /\ signals = 1
    /\ ~running /\ reader = "none" /\ serial = "closed"

-----------------------------------------------------------------------------
(* One call of _read_tag_data_bulk *)

\* blocks_per_read and max_retries of _read_tag_data_bulk.
blocks_per_read == 4
max_retries_plus_one == 2 + 1
max_retries == 2

\* Early-stop thresholds of _read_tag_data_bulk (line 242).
EarlyStopBlocks == 16
EarlyStopBytes == 50

\* Largest num_blocks of the calls explored, and their start blocks.
MaxBlocks == 24
BulkStarts == {0, 4}

\* A READ answers with 4 blocks of 4 bytes.
ReadSize == 4 * blocks_per_read

\* The tag's memory: the byte at an address.
TagByte(addr) == (addr * 7 + 3) % 256

\* The 16 bytes a READ of block b returns.
TagRead(b) == [k \in 1 .. ReadSize |-> TagByte(4 * b + k - 1)]

\* The InDataExchange frame _read_tag_data writes: D4 40 01 30 <block>.
ReadCommand(block) == BuildFrame(<<212, 64, 1, 48, block>>)

\* An InDataExchange response frame: D5 41 status data.
DxFrame(status, data) == BuildFrame(<<213, 65, status>> \o data)

\* A response frame with its data checksum off by one.
BadDcs(f) == [f EXCEPT ![Len(f) - 1] = (f[Len(f) - 1] + 1) % 256]

\* What the transport may do with a block-read command: raise, or return bytes.
DxOutcomes(cmd) ==
    LET block == At(cmd, 9)
    IN  { [raised |-> TRUE, response |-> <<>>] }
           \cup { [raised |-> FALSE, response |-> r] :
                    r \in { <<>>, Ack,
                            Ack \o DxFrame(0, TagRead(block)),
                            DxFrame(0, TagRead(block)),
                            Ack \o BadDcs(DxFrame(0, TagRead(block))),
                            Ack \o DxFrame(1, <<>>),
                            Ack \o DxFrame(0, <<>>) } }

\* _read_tag_data: the payload list or None; any exception is caught.
ReadTagData(io) ==
    IF io.raised THEN NoBytes
    ELSE IF io.response = <<>> \/ Len(io.response) < 8 THEN NoBytes
    ELSE ParseDataExchangeResponse(io.response)

\* "for retry in range(max_retries)": was this attempt the last one?
LastAttempt(r) == r + 1 >= max_retries

\* The early-stop test of line 242.
KeepPartial(bs, start, data) ==
    bs > start + EarlyStopBlocks /\ Len(data) > EarlyStopBytes

\* Index of the chunk that starts at block bs.
ChunkIndex(bs, start) == (bs - start) \div blocks_per_read

\* ceil(n / 4): the chunks of range(start, start + n, 4).
NumChunks(n) == (n + blocks_per_read - 1) \div blocks_per_read

InitBulk ==
    /\ start_block \in BulkStarts
    /\ num_blocks \in 0 .. MaxBlocks
    /\ block_start = start_block
    /\ bulk_pc = IF num_blocks = 0 THEN "return" ELSE "read"
    /\ retry = 0 /\ block_data = NoBytes /\ all_data = <<>> /\ bulk_result = NoBytes
    /\ reads = 0 /\ opens = 1 /\ chunkFailed = -1
    /\ IdleLoop /\ IdleCodec /\ IdleSession /\ IdleNdef

\* One pass of the retry loop: _read_tag_data(target_id, block_start, 1).
BulkRead ==
    /\ bulk_pc = "read"
    /\ \E io \in DxOutcomes(ReadCommand(block_start)) :
         LET got == ReadTagData(io)
         IN  /\ block_data' = got
             /\ reads' = reads + 1
             /\ IF TruthyBytes(got) \/ LastAttempt(retry)
                THEN bulk_pc' = "collect" /\ retry' = retry
                ELSE bulk_pc' = "read" /\ retry' = retry + 1
    /\ UNCHANGED <<start_block, num_blocks, block_start, all_data, bulk_result,
                   opens, chunkFailed>>
    /\ UNCHANGED <<loopVars, codecVars, sessVars, ndefVars>>

\* After the retry loop: extend all_data and go to the next chunk, or apply the
\* partial-failure policy.
BulkCollect ==
    /\ bulk_pc = "collect"
    /\ IF TruthyBytes(block_data)
       THEN /\ all_data' = all_data \o block_data
            /\ block_start' = block_start + blocks_per_read
            /\ bulk_pc' = IF block_start + blocks_per_read < start_block + num_blocks
                          THEN "read" ELSE "return"
            /\ UNCHANGED <<bulk_result, chunkFailed>>
       ELSE /\ chunkFailed' = ChunkIndex(block_start, start_block)
            /\ IF KeepPartial(block_start, start_block, all_data)
               THEN bulk_pc' = "return" /\ bulk_result' = bulk_result
               ELSE bulk_pc' = "done" /\ bulk_result' = NoBytes
            /\ UNCHANGED <<all_data, block_start>>
    /\ retry' = 0 /\ block_data' = NoBytes
    /\ UNCHANGED <<start_block, num_blocks, reads, opens>>
    /\ UNCHANGED <<loopVars, codecVars, sessVars, ndefVars>>

\* "return all_data if all_data else None"
BulkReturn ==
    /\ bulk_pc = "return"
    /\ bulk_result' = IF all_data # <<>> THEN all_data ELSE NoBytes
    /\ bulk_pc' = "done"
    /\ UNCHANGED <<start_block, num_blocks, block_start, retry, block_data,
                   all_data, reads, opens, chunkFailed>>
    /\ UNCHANGED <<loopVars, codecVars, sessVars, ndefVars>>

NextBulk == BulkRead \/ BulkCollect \/ BulkReturn

\* The call runs to its end: it is straight-line code between transport reads
\* that each return within the serial timeout.
SpecBulk == InitBulk /\ [][NextBulk]_vars /\ WF_vars(NextBulk)


\* C5: if chunk 2 of 5 fails after its retries (chunks 0 and 1 read), the call
\* returns the 32 bytes collected so far; if chunk 0 fails, it returns None.
C5_PartialAfterChunk2 ==
    bulk_pc = "done" =>
        /\ (NumChunks(num_blocks) = 5 /\ chunkFailed = 2) =>
              (bulk_result = all_data /\ Len(all_data) = 2 * ReadSize)
        /\ chunkFailed = 0 => bulk_result = NoBytes

C9_Bounded ==
    /\ retry < 2
    /\ reads <= 2 * NumChunks(num_blocks)
    /\ opens = 1
    /\ bulk_pc = "done" =>
          (bulk_result = NoBytes \/ (bulk_result = all_data /\ all_data # <<>>))

\* C9: each chunk is attempted at most twice, so a call issues at most
\* 2 * ceil(n / 4) block reads; it always ends, with an image or None, and
\* never opens the transport again.
C9_BoundedBulkRead == [](C9_Bounded) /\ <>(bulk_pc = "done")

\* C9 witness: chunk 0 needed both attempts, chunk 1 used up both and failed:
\* 4 reads, and the call is over.
C9_Witness ==
    /\ bulk_pc = "done" /\ chunkFailed = 1 /\ reads = 4 /\ bulk_result = NoBytes

-----------------------------------------------------------------------------
(* The response parsers on response buffers *)

\* The buffers parsed: well-formed responses, every one-byte corruption of
\* them, and every truncation.
CodecFrames ==
    { Ack \o DetectFrame(1, 0, UidA),
      DetectFrame(1, 8, UidB),
      Ack \o DetectFrame(1, 0, Uid7),
      Ack \o DetectFrame(2, 32, <<>>),
      Ack \o DetectFrame(0, 0, UidA),
      Ack \o OverlongUidFrame,
      Ack \o DxFrame(0, TagRead(4)),
      DxFrame(0, TagRead(8)) }

\* Data wrapped into a response frame and parsed back: every byte string of up
\* to MaxDataLen bytes over bytes that occur in frame headers, and the longest
\* data whose frame length still fits in one byte.
MaxDataLen == 3
HeaderBytes == {0, 255, 213, 65}
LongestData == [k \in 1 .. 252 |-> TagByte(k)]
RoundTripData ==
    UNION { [1 .. n -> HeaderBytes] : n \in 0 .. MaxDataLen } \cup {LongestData}

Corruptions(f) == { [f EXCEPT ![k] = (f[k] + 1) % 256] : k \in 1 .. Len(f) }

CodecBuffers ==
    UNION { {f} \cup Corruptions(f) \cup Prefixes(f) : f \in CodecFrames }

InitCodec ==
    /\ \/ buf \in CodecBuffers /\ framed = NoBytes
       \/ \E d \in RoundTripData, pre \in {<<>>, Ack} :
             buf = pre \o DxFrame(0, d) /\ framed = d
    /\ codec_pc = "ready" /\ cardResult = NoCard /\ dxResult = NoBytes
    /\ IdleLoop /\ IdleBulk /\ IdleSession /\ IdleNdef

\* _parse_card_data(buf)
CodecParseCard ==
    /\ codec_pc = "ready"
    /\ cardResult' = ParseCardData(buf)
    /\ codec_pc' = "parsed_card"
    /\ UNCHANGED <<buf, dxResult, framed>>
    /\ UNCHANGED <<loopVars, bulkVars, sessVars, ndefVars>>

\* _parse_data_exchange_response(buf)
CodecParseDx ==
    /\ codec_pc = "ready"
    /\ dxResult' = ParseDataExchangeResponse(buf)
    /\ codec_pc' = "parsed_dx"
    /\ UNCHANGED <<buf, cardResult, framed>>
    /\ UNCHANGED <<loopVars, bulkVars, sessVars, ndefVars>>

NextCodec == CodecParseCard \/ CodecParseDx

SpecCodec == InitCodec /\ [][NextCodec]_vars

\* The frame that starts at position i of data carries a length checksum, or a
\* data checksum, that does not match.
ChecksumMismatch(data, i) ==
    LET len == At(data, i + 3)
    IN  \/ At(data, i + 4) # (256 - len) % 256
        \/ /\ i + 5 + len < Len(data)
           /\ At(data, i + 5 + len) #
                 (256 - Sum(Slice(data, i + 5, i + 5 + len))) % 256

\* C10: a response whose length checksum or data checksum does not match
\* yields no result from _parse_card_data and _parse_data_exchange_response.
C10_ChecksumsRequired ==
    /\ (codec_pc = "parsed_card" /\ cardResult # NoCard) =>
          ~ChecksumMismatch(buf, Min(CardHits(buf)))
    /\ (codec_pc = "parsed_dx" /\ dxResult # NoBytes) =>
          ~ChecksumMismatch(buf, Min(DxHits(buf)))

\* The positions in data of a start marker followed, after LEN and LCS, by the
\* response-type bytes D5 t.
ResponseHeads(data, t) ==
    { i \in 0 .. (Len(data) - 7) :
        /\ data[i + 1] = 0 /\ data[i + 2] = 0 /\ data[i + 3] = 255
        /\ data[i + 6] = 213 /\ data[i + 7] = t }

\* The buffer holds the frame at position i up to and including the checksum
\* byte that follows its LEN declared bytes.
HoldsDeclared(data, i) == i + 5 + data[i + 4] + 1 <= Len(data)

\* C12: _parse_data_exchange_response (D5 41) and _parse_card_data (D5 4B)
\* return a result only from a buffer that has a start marker followed by the
\* requested response-type bytes and that holds the frame's declared length
\* and the checksum byte after it.
C12_ExtractionRejects ==
    /\ (codec_pc = "parsed_dx" /\ dxResult # NoBytes) =>
          \E i \in ResponseHeads(buf, 65) : HoldsDeclared(buf, i)
    /\ (codec_pc = "parsed_card" /\ cardResult # NoCard) =>
          \E i \in ResponseHeads(buf, 75) : HoldsDeclared(buf, i)

\* C13: a frame 00 00 FF LEN LCS D5 41 00 data DCS 00 built around data parses
\* back to exactly data.
C13_FrameRoundTrip ==
    (codec_pc = "parsed_dx" /\ framed # NoBytes) => dxResult = framed

\* C13 witness: the longest data that fits (252 bytes, LEN = 255) came back.
C13_Witness ==
    /\ codec_pc = "parsed_dx" /\ framed = LongestData /\ dxResult = LongestData
    /\ At(buf, 3) = 255

\* C16: on a buffer with one detection response, _parse_card_data returns
\* nothing if the target count is 0 or if the UID length byte (or the UID it
\* declares) lies past the end of the buffer; otherwise the card's uid is the
\* uid_len bytes that follow NbTg, Tg, SENS_RES (2), SAK and the UID length,
\* in hex, and its target id is 1.
C16_DetectionParsing ==
    (codec_pc = "parsed_card" /\ Cardinality(ResponseHeads(buf, 75)) = 1) =>
        LET i == Min(ResponseHeads(buf, 75))
            n == Len(buf)
        IN  IF i + 13 > n \/ buf[i + 8] = 0 \/ i + 13 + buf[i + 13] > n
            THEN cardResult = NoCard
            ELSE /\ cardResult # NoCard
                 /\ cardResult.uid =
                       HexStr(SubSeq(buf, i + 14, i + 13 + buf[i + 13]))
                 /\ cardResult.target_id = 1
                 /\ buf = DetectFrame(1, 8, UidB) =>
                       cardResult.uid = <<"D", "E", "A", "D", "B", "E", "E", "F">>

\* C16 witness: a complete response with a 7-byte UID was parsed to a card.
C16_Witness ==
    /\ codec_pc = "parsed_card" /\ buf = Ack \o DetectFrame(1, 0, Uid7)
    /\ cardResult # NoCard /\ Len(cardResult.uid) = 14

\* C16 witness of the rejections: zero targets, and a UID length past the end.
C16_WitnessRejected ==
    /\ codec_pc = "parsed_card" /\ cardResult = NoCard
    /\ buf \in {Ack \o DetectFrame(0, 0, UidA), Ack \o OverlongUidFrame}

-----------------------------------------------------------------------------
(* connect_serial and the command frames written to the transport *)

Byte == 0 .. 255

\* The byte strings of _wakeup, _configure and scan_for_card.
wakeup_cmd == <<85, 85, 0, 0, 0, 0, 0, 0, 0, 0, 0, 0, 0, 0, 0, 0,
                255, 3, 253, 212, 20, 1, 23, 0>>
fw_cmd == <<0, 0, 255, 2, 254, 212, 2, 42, 0>>
config_cmd == <<0, 0, 255, 5, 251, 212, 20, 1, 20, 1, 2, 0>>
scan_cmd == <<0, 0, 255, 4, 252, 212, 74, 1, 0, 225, 0>>

\* The writes of connect_serial, in program order: _wakeup writes two
\* commands, _configure one.
HandshakeCommands ==
    << [name |-> "wakeup",    frame |-> wakeup_cmd],
       [name |-> "firmware",  frame |-> fw_cmd],
       [name |-> "configure", frame |-> config_cmd] >>

\* What read_all() may return during the handshake: nothing, an ACK alone, or
\* an ACK and a response frame.
HandshakeResponses ==
    { <<>>, Ack, Ack \o BuildFrame(<<213, 3, 50, 1, 6, 7>>) }

\* Where connect_serial goes after the read_all() that follows its n-th write,
\* had the read to return bytes for the handshake to go on.
AfterHandshakeRead_NeedsResponse(n, resp) ==
    IF resp = <<>> THEN "failed"
    ELSE IF n < Len(HandshakeCommands) THEN "write" ELSE "ready"

\* Where connect_serial goes after the read_all() that follows its n-th write:
\* the bytes read are dropped.
AfterHandshakeRead(n, resp) ==
    IF n < Len(HandshakeCommands) THEN "write" ELSE "ready"

loopButSerial ==
    <<loopKind, payload_type, ha_token, pc, running, reader, last_uid, response,
      card, signals, prevUid, event, posted, extracted, fires, streakUid, exIdx,
      exEvents, ioFailed, polledAfterFail, scanRaised, scanIoError>>

InitSession ==
    /\ sess_pc = "connect" /\ written = <<>> /\ lastFrame = <<>>
    /\ responded = <<>> /\ connect_result = "pending"
    /\ IdleLoop /\ IdleBulk /\ IdleCodec /\ IdleNdef

\* connect_serial up to serial.Serial(...): no port configured, the open
\* raising, or the port open.
ConnectOpen ==
    /\ sess_pc = "connect"
    /\ \E port_found \in BOOLEAN, open_ok \in BOOLEAN :
         IF port_found /\ open_ok
         THEN /\ serial' = "open" /\ sess_pc' = "write"
              /\ connect_result' = connect_result
         ELSE /\ serial' = serial /\ sess_pc' = "returned"
              /\ connect_result' = "False"
    /\ UNCHANGED <<written, lastFrame, responded>>
    /\ UNCHANGED <<loopButSerial, bulkVars, codecVars, ndefVars>>

\* The next self.serial.write of _wakeup / _configure; a write that raises is
\* caught by connect_serial's except, which returns False.
HandshakeWrite ==
    /\ sess_pc = "write"
    /\ \E ok \in BOOLEAN :
         IF ok
         THEN LET c == HandshakeCommands[Len(written) + 1]
              IN  /\ written' = Append(written, c.name)
                  /\ lastFrame' = c.frame
                  /\ sess_pc' = "read"
                  /\ connect_result' = connect_result
         ELSE /\ sess_pc' = "returned" /\ connect_result' = "False"
              /\ UNCHANGED <<written, lastFrame>>
    /\ UNCHANGED <<responded>>
    /\ UNCHANGED <<loopVars, bulkVars, codecVars, ndefVars>>

\* The self.serial.read_all() after a handshake write, and the return of
\* connect_serial after the last one.
HandshakeRead ==
    /\ sess_pc = "read"
    /\ \E ok \in BOOLEAN, resp \in HandshakeResponses :
         IF ok
         THEN LET to == AfterHandshakeRead(Len(written), resp)
              IN  /\ responded' = Append(responded, resp # <<>>)
                  /\ sess_pc' = IF to = "failed" THEN "returned" ELSE to
                  /\ connect_result' = IF to = "ready" THEN "True"
                                       ELSE IF to = "failed" THEN "False"
                                       ELSE connect_result
         ELSE /\ sess_pc' = "returned" /\ connect_result' = "False"
              /\ UNCHANGED <<responded>>
    /\ UNCHANGED <<written, lastFrame>>
    /\ UNCHANGED <<loopVars, bulkVars, codecVars, ndefVars>>

\* scan_for_card's self.serial.write(scan_cmd) on the ready session.
IssueScan ==
    /\ sess_pc = "ready"
    /\ written' = Append(written, "scan")
    /\ lastFrame' = scan_cmd
    /\ sess_pc' = "issued"
    /\ UNCHANGED <<responded, connect_result>>
    /\ UNCHANGED <<loopVars, bulkVars, codecVars, ndefVars>>

\* _read_tag_data's self.serial.write(bytes(cmd)) for a block number.
IssueRead ==
    /\ sess_pc = "ready"
    /\ \E block \in Byte :
         /\ written' = Append(written, "read")
         /\ lastFrame' = ReadCommand(block)
    /\ sess_pc' = "issued"
    /\ UNCHANGED <<responded, connect_result>>
    /\ UNCHANGED <<loopVars, bulkVars, codecVars, ndefVars>>

NextSession ==
    \/ ConnectOpen
    \/ HandshakeWrite
    \/ HandshakeRead
    \/ IssueScan
    \/ IssueRead

SpecSession == InitSession /\ [][NextSession]_vars

\* The positions of the start marker 00 00 FF in a byte string.
Markers(f) == { i \in 0 .. (Len(f) - 3) : Slice(f, i, i + 3) = <<0, 0, 255>> }

\* f ends with one frame 00 00 FF LEN LCS payload DCS 00 whose LEN counts the
\* payload bytes and whose two checksums match.
EndsWithValidFrame(f) ==
    /\ Markers(f) # {}
    /\ LET i == Min(Markers(f))
           n == Len(f) - i - 7
       IN  /\ n >= 0
           /\ At(f, i + 3) = n
           /\ At(f, i + 4) = (256 - n) % 256
           /\ At(f, i + 5 + n) = (256 - Sum(Slice(f, i + 5, i + 5 + n))) % 256
           /\ At(f, i + 6 + n) = 0

\* C11: every command written to the transport (wakeup, firmware version,
\* configuration, detection, and the block read of every block 0..255) is a
\* valid frame: LEN is the number of payload bytes, LCS = (256 - LEN) mod 256
\* and DCS = (256 - sum(payload)) mod 256; all its bytes are bytes.
C11_CommandFramesValid ==
    written # <<>> =>
        /\ EndsWithValidFrame(lastFrame)
        /\ \A k \in 1 .. Len(lastFrame) : lastFrame[k] \in Byte

\* C11 witness: the block-read command of block 255 was written.
C11_Witness ==
    /\ sess_pc = "issued" /\ written[Len(written)] = "read"
    /\ At(lastFrame, 9) = 255

\* C19: if the port does not open, connect_serial returns False with the
\* session disconnected and nothing written; once the port is open and the
\* three handshake reads have returned, connect_serial has returned True with
\* wakeup, firmware and configure written in that order, whichever of the
\* reads returned bytes.
C19_HandshakeBestEffort ==
    /\ (sess_pc = "returned" /\ serial = "none") =>
          (connect_result = "False" /\ written = <<>>)
    /\ \A k \in 1 .. Len(written) :
          k <= Len(HandshakeCommands) => written[k] = HandshakeCommands[k].name
    /\ Len(responded) = Len(HandshakeCommands) =>
          /\ connect_result = "True" /\ serial = "open"
          /\ sess_pc \in {"ready", "issued"}
    /\ connect_result = "True" =>
          SubSeq(written, 1, 3) = <<"wakeup", "firmware", "configure">>

\* C19 witness: none of the three handshake reads returned a byte and
\* connect_serial returned True.
C19_Witness ==
    /\ sess_pc = "ready" /\ connect_result = "True"
    /\ responded = <<FALSE, FALSE, FALSE>>

\* C24: whenever connect_serial has returned False, self.serial is None or a
\* closed port, also when the port had been opened and a handshake write or
\* read raised afterwards.
C24_FailedConnectHoldsNoTransport ==
    (sess_pc = "returned" /\ connect_result = "False") =>
        serial \in {"none", "closed"}

-----------------------------------------------------------------------------
(* _extract_tag_value *)

\* uri_prefixes, indexed by uri_id + 1.
uri_prefixes ==
    << "", "http://www.", "https://www.", "http://", "https://", "tel:",
       "mailto:", "ftp://anonymous:anonymous@", "ftp://ftp.", "ftps://",
       "sftp://", "smb://", "nfs://", "ftp://", "dav://", "news:", "telnet://",
       "imap:", "rtsp://", "urn:", "pop:", "sip:", "sips:", "tftp:",
       "btspp://", "btl2cap://", "btgoep://", "tcpobex://", "irdaobex://",
       "file://", "urn:epc:id:", "urn:epc:tag:", "urn:epc:pat:",
       "urn:epc:raw:", "urn:epc:", "urn:nfc:" >>

\* uri_prefixes.get(uri_id, f"[{uri_id:02X}]")
UriPrefix(uri_id) ==
    IF uri_id < Len(uri_prefixes) THEN Chars(uri_prefixes[uri_id + 1])
    ELSE <<"[">> \o Hex2(uri_id) \o <<"]">>

TagSegment == Chars("/tag/")

\* The URI branch (lines 382-433) on a non-empty payload.
UriValue(payload_) ==
    LET prefix == UriPrefix(payload_[1])
        uri_suffix == Utf8Decode(Tail(payload_))
    IN  IF Contains(uri_suffix, TagSegment)
        THEN SplitLast(uri_suffix, TagSegment)
        ELSE prefix \o uri_suffix

\* payload[0] & 0x3F
LangLen(payload_) == payload_[1] % 64

\* A fallback without the last resort of line 453.
FallbackValue_NoLastResort(payload_) ==
    LET text == Utf8Decode(payload_)
    IN  IF Strip(text) # <<>>
        THEN [branch |-> "utf8", value |-> text]
        ELSE [branch |-> "none", value |-> None]

\* The fallback of lines 444-453: the payload as text, or as hex digits.
FallbackValue(payload_) ==
    LET text == Utf8Decode(payload_)
    IN  IF Strip(text) # <<>>
        THEN [branch |-> "utf8", value |-> text]
        ELSE [branch |-> "hex", value |-> HexStr(payload_)]

\* _extract_tag_value: the branch that returned and the value.
ExtractTagValue(record_type_, payload_) ==
    IF record_type_ # <<>> /\ record_type_[1] = 85 /\ payload_ # <<>>
    THEN [branch |-> "uri", value |-> UriValue(payload_)]
    ELSE IF /\ record_type_ # <<>> /\ record_type_[1] = 84 /\ payload_ # <<>>
            /\ Len(payload_) > LangLen(payload_) + 1
    THEN [branch |-> "text",
          value |-> Utf8Decode(Slice(payload_, LangLen(payload_) + 1, Len(payload_)))]
    ELSE FallbackValue(payload_)

\* Record types given to _extract_tag_value: none, 'U', 'T', longer types
\* that start with 'U' or 'T', and others.
ExtractTypes == { <<>>, <<85>>, <<84>>, <<85, 1>>, <<84, 120>>, <<115, 112>>, <<1>> }

\* Largest URI prefix code tried (the table ends at 35).
MaxUriCode == 37

\* Payloads given to _extract_tag_value.
ExtractPayloads ==
    { <<>>,
      <<4>> \o Bytes("example.com/tag/42"),
      <<3>> \o Bytes("foo.org"),
      <<2>> \o Bytes("www.home-assistant.io/tag/0a1b2c3d-kitchen"),
      <<0>> \o Bytes("a/tag/b/tag/c"),
      <<0>> \o Bytes("x/tag/tag/abc"),
      <<4>> \o Bytes("h.io/tag/"),
      <<255>> \o Bytes("x.y"),
      <<4, 99, 97, 102, 195, 169, 47, 255, 120>>,
      <<2>> \o Bytes("enHello"),
      <<2>> \o Bytes("en"),
      <<130>> \o Bytes("entag-0042"),
      <<5>> \o Bytes("en"),
      <<0>>,
      <<0>> \o Bytes("plain text"),
      <<32, 9, 32>>,
      <<255, 254>>,
      <<226, 130, 172, 226, 130>> }
       \cup { <<c>> \o Bytes("ab.c") : c \in 0 .. MaxUriCode }

InitExtract ==
    /\ nd_pc = "extract" /\ nd_data = <<>> /\ tlv = NoTlv /\ ndef_message = NoBytes
    /\ fields = NoFields
    /\ record_type \in ExtractTypes
    /\ payload \in ExtractPayloads
    /\ branch = "none" /\ tag_value = None /\ nd_result = None
    /\ IdleLoop /\ IdleBulk /\ IdleCodec /\ IdleSession

\* _extract_tag_value(record_type, payload); called from
\* _parse_first_ndef_record it returns to the length gate of line 365.
ExtractValue ==
    /\ nd_pc = "extract"
    /\ LET r == ExtractTagValue(record_type, payload)
       IN  /\ branch' = r.branch
           /\ tag_value' = r.value
    /\ nd_pc' = IF ndef_message = NoBytes THEN "done" ELSE "gate"
    /\ UNCHANGED <<nd_data, tlv, ndef_message, fields, record_type, payload, nd_result>>
    /\ UNCHANGED <<loopVars, bulkVars, codecVars, sessVars>>

NextExtract == ExtractValue

SpecExtract == InitExtract /\ [][NextExtract]_vars

\* The part of s after the last place where sep occurs in s.
AfterLastOccurrence(s, sep) ==
    LET at == { k \in 1 .. (Len(s) - Len(sep) + 1) :
                  SubSeq(s, k, k + Len(sep) - 1) = sep }
        last == CHOOSE k \in at : \A j \in at : j <= k
    IN  SubSeq(s, last + Len(sep), Len(s))

\* C17: for a URI record (type 'U') with a payload, the value is the part of
\* the decoded suffix after the last "/tag/" if the suffix contains "/tag/",
\* and otherwise the prefix the first byte selects (a bracketed two-digit hex
\* tag for a code outside the table) followed by the suffix; 0x04 +
\* "example.com/tag/42" gives "42" and 0x03 + "foo.org" gives "http://foo.org".
C17_UriValue ==
    (nd_pc = "done" /\ record_type = <<85>> /\ payload # <<>>) =>
        LET suffix == Utf8Decode(Tail(payload))
        IN  /\ branch = "uri"
            /\ IF Contains(suffix, TagSegment)
               THEN tag_value = AfterLastOccurrence(suffix, TagSegment)
               ELSE tag_value = UriPrefix(payload[1]) \o suffix
            /\ payload = <<4>> \o Bytes("example.com/tag/42") =>
                  tag_value = <<"4", "2">>
            /\ payload = <<3>> \o Bytes("foo.org") =>
                  tag_value = Chars("http://foo.org")
            /\ payload = <<255>> \o Bytes("x.y") =>
                  tag_value = Chars("[FF]x.y")

\* C18: for a text record (type 'T') with a payload, the value is the decoding
\* of everything after the status byte and the L = (status & 0x3F) language
\* bytes, the empty text included; 0x02 + "en" + "Hello" gives "Hello".
C18_TextValue ==
    (nd_pc = "done" /\ record_type = <<84>> /\ payload # <<>>) =>
        /\ tag_value = Utf8Decode(Slice(payload, LangLen(payload) + 1, Len(payload)))
        /\ payload = <<2>> \o Bytes("enHello") => tag_value = Chars("Hello")

\* C20: the URI branch is taken only for the type <<0x55>> and the text branch
\* only for the type <<0x54>>; an empty type, or one of more than one byte,
\* takes the fallback (UTF-8 text or hex).
C20_TypeDispatch ==
    nd_pc = "done" =>
        /\ branch = "uri" => record_type = <<85>>
        /\ branch = "text" => record_type = <<84>>
        /\ Len(record_type) # 1 => branch \in {"utf8", "hex"}

\* Two uppercase hexadecimal digits per byte of bs, in order.
UpperHexPairs(t, bs) ==
    /\ Len(t) = 2 * Len(bs)
    /\ \A k \in 1 .. Len(bs) :
         /\ t[2 * k - 1] = SubSeq("0123456789ABCDEF", (bs[k] \div 16) + 1, (bs[k] \div 16) + 1)
         /\ t[2 * k] = SubSeq("0123456789ABCDEF", (bs[k] % 16) + 1, (bs[k] % 16) + 1)

\* C21: for every record type and every non-empty payload _extract_tag_value
\* returns a text, never None; when neither the URI nor the text decoding
\* applies and the payload decodes to nothing but whitespace, the text is the
\* payload as uppercase hex digit pairs.
C21_ExtractionTotal ==
    (nd_pc = "done" /\ payload # <<>>) =>
        /\ tag_value # None
        /\ branch \in {"uri", "text", "utf8", "hex"}
        /\ \A k \in 1 .. Len(tag_value) : Len(tag_value[k]) >= 1
        /\ branch = "hex" => UpperHexPairs(tag_value, payload)
        /\ (branch \notin {"uri", "text"} /\ Strip(Utf8Decode(payload)) = <<>>) =>
              branch = "hex"
        /\ (record_type = <<1>> /\ payload = <<255, 254>>) =>
              tag_value = Chars("FFFE")

\* C21 witness: a text record whose payload is too short for its language
\* code and is all whitespace came back as hex digits.
C21_Witness ==
    /\ nd_pc = "done" /\ record_type = <<84>> /\ payload = <<32, 9, 32>>
    /\ branch = "hex" /\ tag_value = Chars("200920")

-----------------------------------------------------------------------------
(* _parse_ndef_record_1_validated and _parse_first_ndef_record *)

\* The TLV tag of an NDEF message.
NdefTlvTag == 3

\* len(available_data) > 10 of line 279.
MinViableRecord == 10

\* "len(ndef_data) - i > msg_len * 0.8" of line 277, in tenths: the two agree
\* for every msg_len of one byte and every length.
CloseEnough(avail, msg_len) == 10 * avail > 8 * msg_len

\* A scan that takes the last byte equal to 0x03 for the NDEF TLV.
FindTlv_LastTag(data) ==
    LET tags == { i \in 0 .. (Len(data) - 1) : At(data, i) = NdefTlvTag }
        last == CHOOSE i \in tags : \A j \in tags : j <= i
    IN  IF data = <<>> \/ Len(data) < 3 \/ tags = {} THEN NoTlv
        ELSE IF last + 1 >= Len(data) THEN NoTlv
        ELSE [found |-> TRUE, msg_len |-> At(data, last + 1), at |-> last + 2]

\* The while loop of _parse_ndef_record_1_validated up to the length byte: the
\* first byte equal to 0x03 is taken for the NDEF TLV, whatever precedes it.
FindTlv(data) ==
    LET tags == { i \in 0 .. (Len(data) - 1) : At(data, i) = NdefTlvTag }
    IN  IF data = <<>> \/ Len(data) < 3 \/ tags = {} THEN NoTlv
        ELSE IF Min(tags) + 1 >= Len(data) THEN NoTlv
        ELSE [found |-> TRUE, msg_len |-> At(data, Min(tags) + 1),
              at |-> Min(tags) + 2]

\* The message _parse_ndef_record_1_validated hands to
\* _parse_first_ndef_record (NoBytes: it returns None without calling it).
MessageOf(data, t) ==
    IF ~t.found THEN NoBytes
    ELSE IF t.at + t.msg_len > Len(data)
    THEN IF /\ CloseEnough(Len(data) - t.at, t.msg_len)
            /\ Len(data) - t.at > MinViableRecord
         THEN Slice(data, t.at, Len(data))
         ELSE NoBytes
    ELSE Slice(data, t.at, t.at + t.msg_len)

\* A length test that lets every record through.
RecordFits_Unchecked(msg, i, required_len) == TRUE

\* Line 349: type, id and payload fit in what is left of the message.
RecordFits(msg, i, required_len) == i + required_len <= Len(msg)

\* The header fields _parse_first_ndef_record reads (lines 304-345), i being the
\* position after them; NoFields when it returns None before line 348.
HeaderFields(msg) ==
    IF msg = <<>> \/ Len(msg) < 3 THEN NoFields
    ELSE LET header == At(msg, 0)
             sr == (header \div 16) % 2 = 1
             il == (header \div 8) % 2 = 1
             type_len == At(msg, 1)
             lenEnd == IF sr THEN 3 ELSE 6
             idEnd == IF il THEN lenEnd + 1 ELSE lenEnd
         IN  IF ~sr /\ 2 + 3 >= Len(msg) THEN NoFields
             ELSE IF il /\ lenEnd >= Len(msg) THEN NoFields
             ELSE [read        |-> TRUE,
                   sr          |-> sr,
                   il          |-> il,
                   tnf         |-> header % 8,
                   type_len    |-> type_len,
                   payload_len |-> IF sr THEN At(msg, 2)
                                   ELSE At(msg, 2) * 16777216 + At(msg, 3) * 65536
                                        + At(msg, 4) * 256 + At(msg, 5),
                   id_len      |-> IF il THEN At(msg, lenEnd) ELSE 0,
                   i           |-> idEnd]

\* required_len of line 348.
RequiredLen(f) == f.type_len + f.id_len + f.payload_len

\* A short record (SR = 1, MB = ME = 1, TNF = 1) that declares decl payload
\* bytes; the id length byte is present iff id is not empty.
ShortRecord(type, id, pl, decl) ==
    <<(IF id = <<>> THEN 209 ELSE 217), Len(type), decl>>
       \o (IF id = <<>> THEN <<>> ELSE <<Len(id)>>) \o type \o id \o pl

\* A normal record (SR = 0) with its 4-byte big-endian payload length.
NormalRecord(type, pl, decl) ==
    <<193, Len(type), 0, 0, decl \div 256, decl % 256>> \o type \o pl

TextKitchen == <<2>> \o Bytes("enkitchen-4")
UriHomeAssistant == <<4>> \o Bytes("www.home-assistant.io/tag/0a1b2c3d-4e5f")

\* First records found in tag memory: complete ones, ones that declare more
\* than they hold, and cut headers.
NdefRecords ==
    { ShortRecord(<<84>>, <<>>, TextKitchen, Len(TextKitchen)),
      ShortRecord(<<85>>, <<>>, UriHomeAssistant, Len(UriHomeAssistant)),
      ShortRecord(<<85>>, <<>>, <<4>> \o Bytes("example.com/tag/42"), 19),
      ShortRecord(<<84>>, <<7, 9>>, TextKitchen, Len(TextKitchen)),
      NormalRecord(<<84>>, TextKitchen, Len(TextKitchen)),
      ShortRecord(<<84>>, <<>>, TextKitchen, Len(TextKitchen) + 3),
      NormalRecord(<<84>>, TextKitchen, 300),
      ShortRecord(<<84>>, <<>>, <<>>, 0),
      <<209, 200, 12, 84, 2, 101, 110, 107, 105, 116, 99, 104, 101, 110>>,
      <<193, 1, 0>> }

\* How far beyond the bytes present the declared TLV length may go.
MaxSlack == 5

\* Bytes that precede the NDEF TLV in tag memory: nothing, padding, and a
\* lock-control TLV.
ImagePrefixes == { <<>>, <<0, 0>>, <<1, 3, 160, 12, 52>> }

\* Tag memory images are a prefix, the NDEF TLV header, a record and maybe a
\* terminator TLV; the declared length d stays around the record's length.
ImageDeclared(r, d) == d >= Len(r) - 2 /\ d <= Len(r) + MaxSlack

\* Tag memory without an NDEF TLV: blank, too short, other TLVs only, and a
\* 0x03 in the last byte read.
BlankImages ==
    { <<>>, <<0, 0>>, <<0, 0, 0, 0, 254>>, <<1, 2, 160, 12, 254, 0>>,
      <<0, 0, 0, NdefTlvTag>> }

InitNdef ==
    /\ \/ \E pre \in ImagePrefixes, r \in NdefRecords, post \in { <<>>, <<254>> } :
            \E d \in { x \in 0 .. 255 : ImageDeclared(r, x) } :
               nd_data = pre \o <<NdefTlvTag, d>> \o r \o post
       \/ nd_data \in BlankImages
    /\ nd_pc = "find" /\ tlv = NoTlv /\ ndef_message = NoBytes
    /\ fields = NoFields /\ record_type = <<>> /\ payload = <<>>
    /\ branch = "none" /\ tag_value = None /\ nd_result = None
    /\ IdleLoop /\ IdleBulk /\ IdleCodec /\ IdleSession

\* _parse_ndef_record_1_validated up to its call of _parse_first_ndef_record,
\* or to its own return None.
FindMessage ==
    /\ nd_pc = "find"
    /\ tlv' = FindTlv(nd_data)
    /\ ndef_message' = MessageOf(nd_data, FindTlv(nd_data))
    /\ nd_pc' = IF MessageOf(nd_data, FindTlv(nd_data)) = NoBytes
                THEN "done" ELSE "record"
    /\ UNCHANGED <<nd_data, fields, record_type, payload, branch, tag_value, nd_result>>
    /\ UNCHANGED <<loopVars, bulkVars, codecVars, sessVars>>

\* _parse_first_ndef_record up to its call of _extract_tag_value (lines
\* 304-361), or to one of its early returns.
ParseRecordHeader ==
    /\ nd_pc = "record"
    /\ LET f == HeaderFields(ndef_message)
       IN  /\ fields' = f
           /\ IF f.read /\ RecordFits(ndef_message, f.i, RequiredLen(f))
              THEN /\ record_type' = Slice(ndef_message, f.i, f.i + f.type_len)
                   /\ payload' = Slice(ndef_message, f.i + f.type_len + f.id_len,
                                       f.i + f.type_len + f.id_len + f.payload_len)
                   /\ nd_pc' = "extract"
              ELSE /\ nd_pc' = "done"
                   /\ UNCHANGED <<record_type, payload>>
    /\ UNCHANGED <<nd_data, tlv, ndef_message, branch, tag_value, nd_result>>
    /\ UNCHANGED <<loopVars, bulkVars, codecVars, sessVars>>

\* Lines 365-368, and the return of _parse_ndef_record_1_validated.
ReturnValue ==
    /\ nd_pc = "gate"
    /\ nd_result' = TagValueGate(tag_value)
    /\ nd_pc' = "done"
    /\ UNCHANGED <<nd_data, tlv, ndef_message, fields, record_type, payload,
                   branch, tag_value>>
    /\ UNCHANGED <<loopVars, bulkVars, codecVars, sessVars>>

NextNdef ==
    \/ FindMessage
    \/ ParseRecordHeader
    \/ ExtractValue
    \/ ReturnValue

SpecNdef == InitNdef /\ [][NextNdef]_vars

\* C14: when the first record's type length + id length + payload length is
\* more than the bytes left in the message after its header fields, the parse
\* returns nothing; a value is only ever decoded from a payload of exactly
\* the declared length, taken from its place in the message.
C14_RecordLengthValidated ==
    fields.read =>
        LET remaining == Len(ndef_message) - fields.i
            start == fields.i + fields.type_len + fields.id_len
        IN  /\ RequiredLen(fields) > remaining =>
                  (nd_pc = "done" /\ nd_result = None /\ branch = "none")
            /\ (nd_pc \in {"extract", "gate"} \/ nd_result # None) =>
                  /\ Len(payload) = fields.payload_len
                  /\ payload = SubSeq(ndef_message, start + 1,
                                      start + fields.payload_len)

\* C14 witness: a record that declares 3 payload bytes more than the message
\* holds was read and nothing was returned.
C14_Witness ==
    /\ nd_pc = "done" /\ fields.read /\ nd_result = None
    /\ RequiredLen(fields) = Len(ndef_message) - fields.i + 3

\* C15: once the NDEF TLV tag and its length byte are read, the message is the
\* declared number of following bytes if the image holds them; if not, it is
\* the rest of the image when that is at least 80 % of the declared length,
\* and otherwise there is no message and nothing is returned.
C15_TlvLeniency ==
    (nd_pc # "find" /\ tlv.found) =>
        LET avail == Len(nd_data) - tlv.at
        IN  IF avail >= tlv.msg_len
            THEN ndef_message = SubSeq(nd_data, tlv.at + 1, tlv.at + tlv.msg_len)
            ELSE IF 10 * avail >= 8 * tlv.msg_len
            THEN ndef_message = SubSeq(nd_data, tlv.at + 1, Len(nd_data))
            ELSE ndef_message = NoBytes /\ nd_result = None

\* C22: the scan takes the first byte equal to 0x03 in the image for the NDEF
\* tag, wherever it stands: the length is the byte after it, the message
\* starts right after that, and a returned value comes from that message;
\* when nothing comes of it nothing is returned, whatever 0x03 bytes follow.
C22_FirstTagCommits ==
    nd_pc # "find" =>
        LET tags == { i \in 1 .. Len(nd_data) : nd_data[i] = 3 }
            first == CHOOSE i \in tags : \A j \in tags : i <= j
        IN  /\ tlv.found <=> (Len(nd_data) >= 3 /\ tags # {} /\ first < Len(nd_data))
            /\ tlv.found => /\ tlv.msg_len = nd_data[first + 1]
                            /\ tlv.at = first + 1
            /\ ndef_message # NoBytes =>
                  /\ tlv.found
                  /\ \E n \in 0 .. Len(nd_data) :
                        ndef_message = SubSeq(nd_data, first + 2, first + 1 + n)
            /\ nd_result # None =>
                  /\ ndef_message # NoBytes
                  /\ fields.read
                  /\ payload = SubSeq(ndef_message,
                                      fields.i + fields.type_len + fields.id_len + 1,
                                      fields.i + RequiredLen(fields))
                  /\ nd_result = tag_value

\* C22 witness: the length byte 0x03 of a lock-control TLV was taken for the
\* NDEF tag and nothing was returned, although a complete NDEF TLV holding a
\* text record follows it.
C22_Witness ==
    /\ nd_pc = "done" /\ nd_result = None
    /\ tlv.found /\ tlv.at = 3 /\ tlv.msg_len = 160
    /\ nd_data = <<1, 3, 160, 12, 52, NdefTlvTag, Len(TextKitchen) + 4>>
                    \o ShortRecord(<<84>>, <<>>, TextKitchen, Len(TextKitchen))
                    \o <<254>>

====
